---- MODULE Spec2Model ----
(***************************************************************************)
(* CAN identifier model of imxrt1060-hal (src/imxrt1060-hal/src/can/id.rs). *)
(*                                                                         *)
(* StandardId / ExtendedId (validated leaf types), Id (tagged union) and   *)
(* IdReg (code + id register pair) with its encode, decode and the         *)
(* arbitration-priority ordering `impl Ord for IdReg`.                     *)
(*                                                                         *)
(* Machine words.  TLC integers are 32-bit signed, so a u32 cannot be an   *)
(* integer of the model.  A u16 / u32 word is the set of its set bit       *)
(* positions (a subset of 0..15 / 0..31): `&` is intersection, `|` is      *)
(* union, `!` is complement within the width, `<<` drops the bits shifted  *)
(* past bit 31 (arithmetic modulo 2^32) and `>>` drops the bits shifted    *)
(* below bit 0.                                                            *)
(***************************************************************************)
EXTENDS Integers, FiniteSets, Sequences, TLC

VARIABLES reg, dec, ord

vars == <<reg, dec, ord>>

(***************************************************************************)
(* Bounds of the model.                                                    *)
(***************************************************************************)
\* Identifier samples are taken around 0: raw values 0..Span, and the
\* extended identifiers whose base id (bits 28..18) is 0..Span.
Span == 1

(***************************************************************************)
(* Word arithmetic.                                                        *)
(***************************************************************************)
\* u32: the fields of IdReg (id.rs:16-17)
U32_BITS == 32
\* u16: the field of StandardId (id.rs:145)
U16_BITS == 16

\* The word whose value is the natural number n (n < 2^31).
Bits(n) == {i \in 0..30 : (n \div (2^i)) % 2 = 1}

\* x << n on u32: bits shifted past the top are lost.
Shl(x, n) == {i + n : i \in {j \in x : j + n < U32_BITS}}

\* x >> n on u32.
Shr(x, n) == {i - n : i \in {j \in x : j >= n}}

\* x & y, x | y, !x on u32.
BitAnd(x, y) == x \cap y
BitOr(x, y) == x \cup y
BitNot(x) == (0..(U32_BITS - 1)) \ x

\* `x as u16`: truncation to the low 16 bits.
AsU16(x) == {i \in x : i < U16_BITS}

\* u32::from(u16): zero extension.
U32From(x) == {i \in 0..(U32_BITS - 1) : i \in x /\ i < U16_BITS}

Top(d) == CHOOSE i \in d : \A j \in d : j <= i

\* Ord::cmp on unsigned integers: decided by the highest bit that differs.
cmp_uint(x, y) ==
    IF x = y THEN "Equal"
    ELSE LET d == (x \ y) \cup (y \ x)
         IN IF Top(d) \in y THEN "Less" ELSE "Greater"

\* x <= y on unsigned integers.
LeU(x, y) == cmp_uint(x, y) # "Greater"

\* Ord::cmp on bool: false < true.
cmp_bool(x, y) ==
    IF x = y THEN "Equal" ELSE IF y THEN "Less" ELSE "Greater"

\* Ordering::reverse
reverse(o) ==
    CASE o = "Less" -> "Greater"
      [] o = "Greater" -> "Less"
      [] OTHER -> "Equal"

\* Ordering::then
then(o, other) == IF o = "Equal" THEN other ELSE o

(***************************************************************************)
(* Option<T>.                                                              *)
(***************************************************************************)
Some(v) == [some |-> TRUE, val |-> v]
None == [some |-> FALSE, val |-> {}]

(***************************************************************************)
(* StandardId and ExtendedId (id.rs:143-229).  A value of either type is   *)
(* the word it wraps.                                                      *)
(***************************************************************************)
\* StandardId::new with the bound tested one short (`raw < 0x7FF`).
StandardId_new_Strict(raw) ==
    IF LeU(raw, Bits(2047)) /\ raw # Bits(2047) THEN Some(raw) ELSE None

\* StandardId::new
StandardId_new(raw) ==
    IF LeU(raw, Bits(2047)) THEN Some(raw) ELSE None

\* StandardId::new_unchecked: wraps whatever it is handed.
StandardId_new_unchecked(raw) == raw

\* StandardId::as_raw
StandardId_as_raw(sid) == sid

\* ExtendedId::new
ExtendedId_new(raw) ==
    IF LeU(raw, Bits(536870911)) THEN Some(raw) ELSE None

\* ExtendedId::new_unchecked: wraps whatever it is handed.
ExtendedId_new_unchecked(raw) == raw

\* ExtendedId::as_raw
ExtendedId_as_raw(eid) == eid

\* ExtendedId::standard_id: StandardId((self.0 >> 18) as u16)
ExtendedId_standard_id(eid) == AsU16(Shr(eid, 18))

(***************************************************************************)
(* IdReg (id.rs:13-104).                                                   *)
(***************************************************************************)
SRR_SHIFT == 22
IDE_SHIFT == 21
RTR_SHIFT == 20
STANDARD_SHIFT == 18
EXTENDED_SHIFT == 0

SRR_MASK == Shl(Bits(1), SRR_SHIFT)
IDE_MASK == Shl(Bits(1), IDE_SHIFT)
RTR_MASK == Shl(Bits(1), RTR_SHIFT)

\* IdReg::new
IdReg_new(code, id) == [code |-> code, id |-> id]

\* IdReg::to_id_reg
to_id_reg(self) == self.id

\* IdReg::new_standard with the identifier shifted one bit short.
new_standard_Shift17(sid) ==
    LET code == Bits(0)
        id == Shl(U32From(StandardId_as_raw(sid)), STANDARD_SHIFT - 1)
    IN IdReg_new(code, id)

\* IdReg::new_standard
new_standard(sid) ==
    LET code == Bits(0)
        id == Shl(U32From(StandardId_as_raw(sid)), STANDARD_SHIFT)
    IN IdReg_new(code, id)

\* IdReg::new_extended: the raw value is shifted by STANDARD_SHIFT here too.
new_extended(eid) ==
    LET code == IDE_MASK
        id == Shl(ExtendedId_as_raw(eid), STANDARD_SHIFT)
    IN IdReg_new(code, id)

\* IdReg::with_rtr with the complement missing in the clearing branch.
with_rtr_NoComplement(self, rtr_flag) ==
    IF rtr_flag
    THEN IdReg_new(BitOr(self.code, RTR_MASK), self.id)
    ELSE IdReg_new(BitAnd(self.code, RTR_MASK), self.id)

\* IdReg::with_rtr
with_rtr(self, rtr_flag) ==
    IF rtr_flag
    THEN IdReg_new(BitOr(self.code, RTR_MASK), self.id)
    ELSE IdReg_new(BitAnd(self.code, BitNot(RTR_MASK)), self.id)

\* IdReg::is_extended
is_extended(self) == BitAnd(self.code, IDE_MASK) # Bits(0)

\* IdReg::is_standard
is_standard(self) == ~is_extended(self)

\* IdReg::rtr
rtr(self) == BitAnd(self.code, RTR_MASK) # Bits(0)

(***************************************************************************)
(* Id (id.rs:231-239): the tagged union, as a record.                      *)
(***************************************************************************)
Id_Standard(sid) == [tag |-> "Standard", raw |-> sid]
Id_Extended(eid) == [tag |-> "Extended", raw |-> eid]

\* IdReg::to_id.  The unchecked constructors have no validity check and no
\* niche: they wrap the shifted word whatever its value.
to_id(self) ==
    IF is_extended(self)
    THEN Id_Extended(ExtendedId_new_unchecked(Shr(self.id, EXTENDED_SHIFT)))
    ELSE Id_Standard(StandardId_new_unchecked(AsU16(Shr(self.id, STANDARD_SHIFT))))

(***************************************************************************)
(* impl Ord for IdReg (id.rs:106-141).                                     *)
(***************************************************************************)
\* cmp without the inversion of the standard/standard identifier comparison.
cmp_NoReverse(self, other) ==
    LET rtr_ord == reverse(cmp_bool(rtr(self), rtr(other)))
        id_a == to_id(self)
        id_b == to_id(other)
        a == id_a.raw
        b == id_b.raw
    IN CASE id_a.tag = "Standard" /\ id_b.tag = "Standard" ->
              then(cmp_uint(StandardId_as_raw(a), StandardId_as_raw(b)), rtr_ord)
         [] id_a.tag = "Extended" /\ id_b.tag = "Extended" ->
              then(reverse(cmp_uint(ExtendedId_as_raw(a), ExtendedId_as_raw(b))), rtr_ord)
         [] id_a.tag = "Standard" /\ id_b.tag = "Extended" ->
              then(reverse(cmp_uint(StandardId_as_raw(a),
                                    StandardId_as_raw(ExtendedId_standard_id(b)))),
                   "Greater")
         [] id_a.tag = "Extended" /\ id_b.tag = "Standard" ->
              then(reverse(cmp_uint(StandardId_as_raw(ExtendedId_standard_id(a)),
                                    StandardId_as_raw(b))),
                   "Less")

\* cmp with the extended/standard branch falling back to Greater, as the
\* standard/extended branch does.
cmp_BothGreater(self, other) ==
    LET rtr_ord == reverse(cmp_bool(rtr(self), rtr(other)))
        id_a == to_id(self)
        id_b == to_id(other)
        a == id_a.raw
        b == id_b.raw
    IN CASE id_a.tag = "Standard" /\ id_b.tag = "Standard" ->
              then(reverse(cmp_uint(StandardId_as_raw(a), StandardId_as_raw(b))), rtr_ord)
         [] id_a.tag = "Extended" /\ id_b.tag = "Extended" ->
              then(reverse(cmp_uint(ExtendedId_as_raw(a), ExtendedId_as_raw(b))), rtr_ord)
         [] id_a.tag = "Standard" /\ id_b.tag = "Extended" ->
              then(reverse(cmp_uint(StandardId_as_raw(a),
                                    StandardId_as_raw(ExtendedId_standard_id(b)))),
                   "Greater")
         [] id_a.tag = "Extended" /\ id_b.tag = "Standard" ->
              then(reverse(cmp_uint(StandardId_as_raw(ExtendedId_standard_id(a)),
                                    StandardId_as_raw(b))),
                   "Greater")

\* cmp with the RTR comparison not reversed (remote frames first).
cmp_RtrNotReversed(self, other) ==
    LET rtr_ord == cmp_bool(rtr(self), rtr(other))
        id_a == to_id(self)
        id_b == to_id(other)
        a == id_a.raw
        b == id_b.raw
    IN CASE id_a.tag = "Standard" /\ id_b.tag = "Standard" ->
              then(reverse(cmp_uint(StandardId_as_raw(a), StandardId_as_raw(b))), rtr_ord)
         [] id_a.tag = "Extended" /\ id_b.tag = "Extended" ->
              then(reverse(cmp_uint(ExtendedId_as_raw(a), ExtendedId_as_raw(b))), rtr_ord)
         [] id_a.tag = "Standard" /\ id_b.tag = "Extended" ->
              then(reverse(cmp_uint(StandardId_as_raw(a),
                                    StandardId_as_raw(ExtendedId_standard_id(b)))),
                   "Greater")
         [] id_a.tag = "Extended" /\ id_b.tag = "Standard" ->
              then(reverse(cmp_uint(StandardId_as_raw(ExtendedId_standard_id(a)),
                                    StandardId_as_raw(b))),
                   "Less")

\* Ord::cmp for IdReg
cmp(self, other) ==
    LET \* When the IDs match, data frames have priority over remote frames.
        rtr_ord == reverse(cmp_bool(rtr(self), rtr(other)))
        id_a == to_id(self)
        id_b == to_id(other)
        a == id_a.raw
        b == id_b.raw
    IN CASE id_a.tag = "Standard" /\ id_b.tag = "Standard" ->
              then(reverse(cmp_uint(StandardId_as_raw(a), StandardId_as_raw(b))), rtr_ord)
         [] id_a.tag = "Extended" /\ id_b.tag = "Extended" ->
              then(reverse(cmp_uint(ExtendedId_as_raw(a), ExtendedId_as_raw(b))), rtr_ord)
         [] id_a.tag = "Standard" /\ id_b.tag = "Extended" ->
              then(reverse(cmp_uint(StandardId_as_raw(a),
                                    StandardId_as_raw(ExtendedId_standard_id(b)))),
                   "Greater")
         [] id_a.tag = "Extended" /\ id_b.tag = "Standard" ->
              then(reverse(cmp_uint(StandardId_as_raw(ExtendedId_standard_id(a)),
                                    StandardId_as_raw(b))),
                   "Less")

\* PartialOrd::partial_cmp for IdReg
partial_cmp(self, other) == Some(cmp(self, other))

\* derived PartialEq for IdReg: field by field.
IdReg_eq(self, other) == self.code = other.code /\ self.id = other.id

(***************************************************************************)
(* The state machine: a caller holding three registers.                    *)
(*                                                                         *)
(* reg[s] is the Option<IdReg> in slot s, i.e. the result of               *)
(* `StandardId::new(raw).map(IdReg::new_standard)` (or the extended        *)
(* analogue, or IdReg::new), with the with_rtr calls made on it since.     *)
(* Beside the register (some, code, id) a slot remembers how it was built: *)
(* kind and input (the constructor and the raw value handed to the checked *)
(* constructor), ident (what the checked constructor returned) and code0   *)
(* and id0 (the register as first built).                                  *)
(* dec[s] is what the accessors returned when the slots were last          *)
(* inspected, ord[<<s, t>>] what cmp returned when they were last compared.*)
(***************************************************************************)
Slots == {"a", "b", "c"}

\* StandardId::ZERO and ExtendedId::MAX style samples of raw input values.
StdInputs ==
    {Bits(n) : n \in 0..Span} \cup {Bits(2047), Bits(2048), 0..(U16_BITS - 1)}

ExtInputs ==
    {Bits(n) : n \in 1..Span}
      \cup {Shl(Bits(n), STANDARD_SHIFT) : n \in 0..Span}
      \cup {Bits(16384), Bits(536870911), Bits(536870912), 0..(U32_BITS - 1)}

\* Arguments of IdReg::new: code words with bits outside IDE and RTR set.
RawCodes == {BitOr(SRR_MASK, Bits(5)), 0..(U32_BITS - 1)}
RawIds == {BitOr(Shl(Bits(1), STANDARD_SHIFT), Bits(1))}

Built(kind, input, ident, r) ==
    [some |-> TRUE, code |-> r.code, id |-> r.id,
     kind |-> kind, input |-> input, ident |-> ident,
     code0 |-> r.code, id0 |-> r.id]

Rejected(kind, input) ==
    [some |-> FALSE, code |-> {}, id |-> {},
     kind |-> kind, input |-> input, ident |-> None,
     code0 |-> {}, id0 |-> {}]

\* The IdReg held in a slot.
IdRegOf(slot) == IdReg_new(slot.code, slot.id)

NoDec == [s \in Slots |-> [tag |-> "none"]]
NoOrd == [p \in Slots \X Slots |-> "none"]

\* StandardId::new(raw).map(IdReg::new_standard)
MakeStandard(raw) ==
    LET sid == StandardId_new(raw)
    IN IF sid.some
       THEN Built("standard", raw, sid, new_standard(sid.val))
       ELSE Rejected("standard", raw)

\* ExtendedId::new(raw).map(IdReg::new_extended)
MakeExtended(raw) ==
    LET eid == ExtendedId_new(raw)
    IN IF eid.some
       THEN Built("extended", raw, eid, new_extended(eid.val))
       ELSE Rejected("extended", raw)

\* The registers the sampled inputs build, computed once.
StandardRegs == [raw \in StdInputs |-> MakeStandard(raw)]
ExtendedRegs == [raw \in ExtInputs |-> MakeExtended(raw)]

Init ==
    /\ reg = [s \in Slots |-> MakeStandard(Bits(0))]
    /\ dec = NoDec
    /\ ord = NoOrd

NewStandard(s, raw) ==
    /\ reg' = [reg EXCEPT ![s] = StandardRegs[raw]]
    /\ dec' = NoDec
    /\ ord' = NoOrd

NewExtended(s, raw) ==
    /\ reg' = [reg EXCEPT ![s] = ExtendedRegs[raw]]
    /\ dec' = NoDec
    /\ ord' = NoOrd

NewRaw(s, code, id) ==
    /\ reg' = [reg EXCEPT ![s] = Built("raw", {}, None, IdReg_new(code, id))]
    /\ dec' = NoDec
    /\ ord' = NoOrd

WithRtr(s, b) ==
    /\ reg[s].some
    /\ LET r == with_rtr(IdRegOf(reg[s]), b)
       IN reg' = [reg EXCEPT ![s].code = r.code, ![s].id = r.id]
    /\ dec' = NoDec
    /\ ord' = NoOrd

\* Every accessor of every register held.
Inspect ==
    /\ \E s \in Slots : reg[s].some
    /\ dec' = [s \in Slots |->
                 IF reg[s].some
                 THEN LET r == IdRegOf(reg[s])
                      IN [tag |-> to_id(r).tag, raw |-> to_id(r).raw,
                          is_extended |-> is_extended(r),
                          is_standard |-> is_standard(r),
                          rtr |-> rtr(r), id_reg |-> to_id_reg(r)]
                 ELSE [tag |-> "none"]]
    /\ ord' = NoOrd
    /\ UNCHANGED reg

\* The comparison (partial_cmp, hence cmp) of every ordered pair of
\* registers held.
Compare ==
    /\ \E s \in Slots : reg[s].some
    /\ ord' = [p \in Slots \X Slots |->
                 IF reg[p[1]].some /\ reg[p[2]].some
                 THEN partial_cmp(IdRegOf(reg[p[1]]), IdRegOf(reg[p[2]])).val
                 ELSE "none"]
    /\ dec' = NoDec
    /\ UNCHANGED reg

Next ==
    \/ \E s \in Slots, raw \in StdInputs : NewStandard(s, raw)
    \/ \E s \in Slots, raw \in ExtInputs : NewExtended(s, raw)
    \/ \E code \in RawCodes, id \in RawIds : NewRaw("a", code, id)
    \/ \E s \in Slots, b \in BOOLEAN : WithRtr(s, b)
    \/ Inspect
    \/ Compare

Spec == Init /\ [][Next]_vars

(***************************************************************************)
(* Properties.                                                             *)
(***************************************************************************)
\* Slot s holds a register encoded from a validated StandardId / ExtendedId.
Std(s) == reg[s].some /\ reg[s].kind = "standard"
Ext(s) == reg[s].some /\ reg[s].kind = "extended"
Encoded(s) == Std(s) \/ Ext(s)

Inspected(s) == dec[s].tag # "none"
Compared(s, t) == ord[<<s, t>>] # "none"

\* cmp(s, t) is Less or Equal.
Le(s, t) == ord[<<s, t>>] \in {"Less", "Equal"}

\* The code word without its RTR bit.
OffRtr(code) == code \ RTR_MASK

\* C1: decoding the register encoded from a valid ExtendedId e, with either
\* RTR setting, gives Id::Extended(e).
C1_ExtendedRoundTrip ==
    \A s \in Slots :
        (Ext(s) /\ Inspected(s)) =>
            (dec[s].tag = "Extended" /\ dec[s].raw = reg[s].input)

\* C2: a register encoded from StandardId s compares greater than one
\* encoded from an ExtendedId e with e.standard_id() = s, and the latter
\* less than the former, whatever the RTR flags.
C2_CrossTypeTieBreak ==
    \A s, t \in Slots :
        (/\ Std(s) /\ Ext(t) /\ Compared(s, t)
         /\ ExtendedId_standard_id(reg[t].ident.val) = reg[s].ident.val)
        => (ord[<<s, t>>] = "Greater" /\ ord[<<t, s>>] = "Less")

\* C3: decoding a register encoded from a validated identifier gives a
\* Standard id with raw <= 0x7FF or an Extended id with raw <= 0x1FFFFFFF.
C3_DecodeInRange ==
    \A s \in Slots :
        (Encoded(s) /\ Inspected(s)) =>
            \/ dec[s].tag = "Standard" /\ LeU(dec[s].raw, Bits(2047))
            \/ dec[s].tag = "Extended" /\ LeU(dec[s].raw, Bits(536870911))

\* C4: for valid ExtendedIds x < y the register encoded from x compares
\* greater than the one encoded from y, whatever the RTR flags.
C4_ExtendedPriority ==
    \A s, t \in Slots :
        (/\ Ext(s) /\ Ext(t) /\ Compared(s, t)
         /\ cmp_uint(reg[s].input, reg[t].input) = "Less")
        => ord[<<s, t>>] = "Greater"

\* C5: for valid StandardIds x < y the register encoded from x compares
\* greater than the one encoded from y, whatever the RTR flags.
C5_StandardPriority ==
    \A s, t \in Slots :
        (/\ Std(s) /\ Std(t) /\ Compared(s, t)
         /\ cmp_uint(reg[s].input, reg[t].input) = "Less")
        => ord[<<s, t>>] = "Greater"

C5_Witness ==
    \E s, t \in Slots :
        /\ Std(s) /\ Std(t)
        /\ cmp_uint(reg[s].input, reg[t].input) = "Less"
        /\ rtr(IdRegOf(reg[s])) /\ ~rtr(IdRegOf(reg[t]))
        /\ ord[<<s, t>>] = "Greater"

\* C6: cmp is a total order on the registers encoded from validated
\* identifiers: cmp(a, a) is Equal, cmp(a, b) is Equal exactly when the code
\* and id fields are equal, cmp(a, b) is the reverse of cmp(b, a), and
\* a <= b and b <= c imply a <= c.
C6_TotalOrder ==
    \A s, t, u \in Slots :
        (Encoded(s) /\ Encoded(t) /\ Encoded(u) /\ Compared(s, t)) =>
            /\ ord[<<s, s>>] = "Equal"
            /\ ord[<<s, t>>] \in {"Less", "Equal", "Greater"}
            /\ ord[<<s, t>>] = "Equal" <=> IdReg_eq(IdRegOf(reg[s]), IdRegOf(reg[t]))
            /\ ord[<<s, t>>] = reverse(ord[<<t, s>>])
            /\ (Le(s, t) /\ Le(t, u)) => Le(s, u)

C6_Witness ==
    \E s, t, u \in Slots :
        /\ Std(s) /\ Ext(t) /\ Std(u)
        /\ ord[<<s, t>>] = "Less" /\ ord[<<t, u>>] = "Less" /\ ord[<<s, u>>] = "Less"

C8_StandardRoundTrip ==
    \A s \in Slots :
        (Std(s) /\ Inspected(s)) =>
            /\ dec[s].tag = "Standard" /\ dec[s].raw = reg[s].input
            /\ dec[s].is_standard /\ ~dec[s].is_extended

C8_Witness ==
    \E s \in Slots :
        /\ Std(s) /\ Inspected(s) /\ reg[s].input = Bits(2047)
        /\ dec[s].rtr /\ dec[s].raw = Bits(2047)

\* C9: StandardId::new(raw) returns a value iff raw <= 0x7FF and
\* ExtendedId::new(raw) iff raw <= 0x1FFFFFFF; the value returned has
\* as_raw() = raw, and otherwise the result is None.
C9_RangeValidation ==
    \A s \in Slots :
        /\ reg[s].kind = "standard" =>
             /\ reg[s].ident.some <=> LeU(reg[s].input, Bits(2047))
             /\ reg[s].ident.some => StandardId_as_raw(reg[s].ident.val) = reg[s].input
             /\ ~reg[s].ident.some => (reg[s].ident = None /\ ~reg[s].some)
        /\ reg[s].kind = "extended" =>
             /\ reg[s].ident.some <=> LeU(reg[s].input, Bits(536870911))
             /\ reg[s].ident.some => ExtendedId_as_raw(reg[s].ident.val) = reg[s].input
             /\ ~reg[s].ident.some => (reg[s].ident = None /\ ~reg[s].some)

C9_Witness ==
    \E s, t, u \in Slots :
        /\ reg[s].kind = "standard" /\ reg[s].input = Bits(2047) /\ reg[s].some
        /\ reg[t].kind = "standard" /\ reg[t].input = Bits(2048) /\ ~reg[t].some
        /\ reg[u].kind = "extended" /\ reg[u].input = Bits(536870912) /\ ~reg[u].some

\* C10: with_rtr changes only the RTR bit. After any sequence of with_rtr
\* calls a register has the id field, the is_extended() answer, the decoded
\* id and the code bits other than bit 20 it was built with; each call
\* leaves rtr() equal to its argument, and repeating it changes nothing.
C10_State ==
    \A s \in Slots :
        reg[s].some =>
            LET r == IdRegOf(reg[s])
                r0 == IdReg_new(reg[s].code0, reg[s].id0)
            IN /\ to_id_reg(r) = to_id_reg(r0)
               /\ OffRtr(r.code) = OffRtr(r0.code)
               /\ is_extended(r) = is_extended(r0)
               /\ is_standard(r) = is_standard(r0)
               /\ to_id(r) = to_id(r0)

C10_Step ==
    \A s \in Slots, b \in BOOLEAN :
        WithRtr(s, b) =>
            LET r == IdRegOf(reg[s])
                r1 == IdRegOf(reg'[s])
            IN /\ rtr(r1) = b
               /\ to_id_reg(r1) = to_id_reg(r)
               /\ OffRtr(r1.code) = OffRtr(r.code)
               /\ with_rtr(r1, b) = r1

C10_WithRtrFrame == [](C10_State) /\ [][C10_Step]_vars

C10_Witness ==
    /\ reg["a"].some /\ reg["a"].kind = "raw"
    /\ reg["a"].code # reg["a"].code0
    /\ Ext("b") /\ rtr(IdRegOf(reg["b"])) /\ Inspected("b")

====
